---- MODULE Spec2Model ----
(***************************************************************************)
(* EnhancedNewsAnalyzer (tech_news_ai_with_facts.py) as a state machine:   *)
(* the fetchers with their retry loops, the fact-pool dedup and sort, the  *)
(* tiered analysis, featured selection, report composition and run().      *)
(*                                                                         *)
(* Conventions.  A Python dict is a TLA+ record whose DOMAIN is the set of *)
(* keys present.  A str is a sequence of tokens (words); slicing s[:n]     *)
(* slices tokens.  Chinese literals are written as ASCII glosses, the      *)
(* original is given in the comment beside them.  Times are seconds.       *)
(* Two fields of an article record are not keys of the Python dict:        *)
(* "oid" is the identity of the dict object (its creation rank, so that a  *)
(* mutation through one list is seen through every list that holds the    *)
(* object) and "pub_time" is the local pub_time the fetcher tested.        *)
(***************************************************************************)
EXTENDS Integers, Sequences, FiniteSets, TLC

VARIABLES
    all_articles,      \* self.all_articles
    ai_articles,       \* self.ai_articles
    fact_articles,     \* self.fact_articles
    deep_analyses,     \* self.deep_analyses
    analyses,          \* the local analyses of generate_deep_analyses
    featured_article,  \* self.featured_article
    featured_fact,     \* self.featured_fact
    abstract_cache,    \* self.abstract_cache
    abstract_calls,    \* the calls of fetch_arxiv_abstract so far
    gemini_api_key,    \* os.getenv('GEMINI_API_KEY') is set
    baidu_configured,  \* BAIDU_APPID and BAIDU_SECRET_KEY are set
    entry_point,       \* the entry point main() calls: run or run_async
    translated_item,   \* the last call of a translation function and its value
    pc,                \* position of run()
    src_idx,           \* index of the source the current fetch loop is at
    attempt,           \* loop variable of the fetcher's retry loop
    last_fetch,        \* while the fetch loops run: the response and the locals of
                       \* the fetcher's last attempt
    analyze_calls,     \* the calls of analyze_with_gemini so far, with their results
    report,            \* the local report of run()
    result             \* what run() returned

vars == <<all_articles, ai_articles, fact_articles, deep_analyses, analyses,
          featured_article, featured_fact, abstract_cache, abstract_calls,
          gemini_api_key,
          baidu_configured, entry_point, translated_item,
          pc, src_idx, attempt, last_fetch, analyze_calls,
          report, result>>

----------------------------------------------------------------------------
\* Bounds of the model (sizes of the responses the remote ends may give).

MaxEntries == 3
MaxHits == 2
MaxPapers == 1
MaxCalls == 4

----------------------------------------------------------------------------
\* Clock and window.

Now == 200000
WindowSeconds == 172800
forty_eight_hours_ago == Now - WindowSeconds

\* strftime('%Y-%m-%d %H:%M') followed (where the code parses it back) by
\* strptime: the seconds are dropped.
StrfMinute(t) == t - (t % 60)
\* strftime('%Y-%m-%d'): the time of day is dropped.
StrfDay(t) == t - (t % 86400)

----------------------------------------------------------------------------
\* Strings.

Min(a, b) == IF a < b THEN a ELSE b
Take(s, n) == SubSeq(s, 1, Min(n, Len(s)))
Get(d, k, default) == IF k \in DOMAIN d THEN d[k] ELSE default
Put(d, k, v) == [x \in (DOMAIN d) \cup {k} |-> IF x = k THEN v ELSE d[x]]
Range(s) == {s[i] : i \in DOMAIN s}

\* str.lower() on one token.
Lower(tok) ==
    CASE tok = "AI" -> "ai"
      [] tok = "GPT" -> "gpt"
      [] tok = "LLM" -> "llm"
      [] OTHER -> tok
LowerText(s) == [i \in DOMAIN s |-> Lower(s[i])]

\* The keywords of the code's lists that occur as a substring of a token of the
\* vocabulary ("ai" occurs in "maintain").
SubstringsOf(tok) ==
    CASE tok = "ai" -> {"ai"}
      [] tok = "maintain" -> {"ai"}
      [] tok = "gpt" -> {"gpt"}
      [] tok = "llm" -> {"llm"}
      [] tok = "market" -> {"market"}
      [] tok = "policy" -> {"policy"}
      [] tok = "health" -> {"health"}
      [] tok = "climate" -> {"climate"}
      [] tok = "technology" -> {"technology", "tech"}
      [] tok = "sparse" -> {"sparse"}
      [] tok = "attention" -> {"attention"}
      [] tok = "arxiv.org" -> {"arxiv.org"}
      [] OTHER -> {}
\* `keyword in text` for a text that is already lower-cased or is used as is.
Occurs(keyword, text) == \E i \in DOMAIN text : keyword \in SubstringsOf(text[i])
AnyOccurs(keywords, text) == \E k \in keywords : Occurs(k, text)

\* BeautifulSoup(summary, 'html.parser').get_text(): the markup goes.
Markup == {"<p>", "</p>"}
IsText(tok) == tok \notin Markup
GetText(s) == SelectSeq(s, IsText)

\* hashlib.md5(link.encode()).hexdigest(): 32 hex digits; [:8] keeps 8 of them.
Md5(link) == [digits |-> 32, of |-> link]
Prefix8(h) == [digits |-> 8, of |-> h.of]

----------------------------------------------------------------------------
\* Source registries: of each list, one source of each kind the loop dispatches
\* on, in the code's order.  "CCTV" stands for the name 央视网.

ai_news_sources ==
    << [name |-> "Arxiv AI Papers", type |-> "arxiv", category |-> "ai_research"],
       [name |-> "TechCrunch AI", type |-> "rss", category |-> "tech"],
       [name |-> "Hacker News AI", type |-> "hn_api", category |-> "community"] >>

fact_news_sources ==
    << [name |-> "CCTV", type |-> "rss", category |-> "china", lang |-> "zh"],
       [name |-> "Reuters China", type |-> "rss", category |-> "world", lang |-> "en"],
       [name |-> "Hacker News Top", type |-> "hn_api", category |-> "tech", lang |-> "en"] >>

----------------------------------------------------------------------------
\* Translation.

\* " (untranslated)" stands for the code's marker " (未翻译)".
Untranslated == "(untranslated)"

\* What one call of the translation API can do when the keys are configured:
\* answer without trans_result, raise, or answer with the translated lines.
BaiduReplies == {"error_msg", "exception", "first_line", "both_lines"}
Zh(text) == <<"zh:">> \o text

NotTranslated(title, summary) ==
    [title |-> Append(title, Untranslated),
     summary |-> IF summary # <<>> THEN Append(summary, Untranslated)
                 ELSE <<Untranslated>>]

\* baidu_translate as it would be with failures answered by empty strings.
baidu_translate_blank(configured, reply, title, summary) ==
    IF ~configured \/ reply \in {"error_msg", "exception"}
    THEN [title |-> <<>>, summary |-> <<>>]
    ELSE [title |-> Zh(title),
          summary |-> IF reply = "both_lines" /\ summary # <<>>
                      THEN Zh(summary) ELSE <<>>]

baidu_translate(configured, reply, title, summary) ==
    IF ~configured THEN NotTranslated(title, summary)
    ELSE IF reply \in {"error_msg", "exception"} THEN NotTranslated(title, summary)
    ELSE [title |-> Zh(title),
          summary |-> IF reply = "both_lines" /\ summary # <<>>
                      THEN Zh(summary) ELSE <<>>]

----------------------------------------------------------------------------
\* BaiduTranslator (baidu_translator.py).

\* Python's None where a str is expected.
NoneStr == <<"<None>">>

\* What one request of translate_text can end with: error_code in the answer,
\* an answer without trans_result, a timeout, another RequestException, or
\* trans_result whose dst is the translation or is empty.
TranslatorReplies ==
    {"error_code", "no_trans_result", "Timeout", "RequestException", "dst", "empty_dst"}

\* 'zh' for a text in Chinese (here: one Zh made), 'auto' for a blank one.
detect_language(text) ==
    IF text = <<>> THEN "auto"
    ELSE IF text[1] = "zh:" THEN "zh"
    ELSE "en"

\* translate_text(text, 'auto', 'zh').
translate_text(app_configured, reply, text) ==
    IF text = <<>> THEN text
    ELSE IF ~app_configured THEN NoneStr
    ELSE IF detect_language(text) = "zh" THEN text
    ELSE IF reply = "dst" THEN Zh(text)
    ELSE IF reply = "empty_dst" THEN <<>>
    ELSE NoneStr

Truthy(str) == str # NoneStr /\ str # <<>>

translate_news_item(app_configured, title_reply, summary_reply, force_translate, title, summary) ==
    LET language == detect_language(title \o summary)
        t == translate_text(app_configured, title_reply, title)
        u == translate_text(app_configured, summary_reply, summary)
    IN IF ~force_translate /\ language = "zh"
       THEN [original |-> [title |-> title, summary |-> summary],
             translated |-> [title |-> title, summary |-> summary],
             language |-> language,
             note |-> "original is Chinese"]
       ELSE [original |-> [title |-> title, summary |-> summary],
             translated |->
                 [title |-> IF title # <<>> /\ Truthy(t) THEN t ELSE <<>>,
                  summary |-> IF summary # <<>> /\ Truthy(u) THEN u ELSE <<>>],
             language |-> language]

----------------------------------------------------------------------------
\* What the remote ends can answer.

\* Entries of a feed, as feedparser gives them.
EntryA ==
    [title |-> <<"AI", "chip">>, summary |-> <<"<p>", "new", "LLM", "</p>">>,
     link |-> "L1", published_parsed |-> forty_eight_hours_ago + 90]
\* Same link as EntryA, dated (by updated_parsed) exactly at the window start.
EntryB ==
    [title |-> <<"rust", "release">>, link |-> "L1",
     updated_parsed |-> forty_eight_hours_ago]
\* One second older than the window.
EntryC ==
    [title |-> <<"market", "policy">>, summary |-> <<"rates">>,
     link |-> "L2", published_parsed |-> forty_eight_hours_ago - 1]
\* In the window, a link of its own, no summary.
EntryD ==
    [title |-> <<"GPT", "market">>, link |-> "L4",
     published_parsed |-> forty_eight_hours_ago + 3600]
\* An entry whose date feedparser could not parse: published_parsed is there and
\* is None, which the flag stands for.
EntryE ==
    [title |-> <<"AI", "agents">>, link |-> "L5", published_parsed_is_none |-> TRUE]
FeedEntries == {EntryA, EntryB, EntryC, EntryD, EntryE}
\* An entry without published_parsed and without updated_parsed.
EntryG ==
    [title |-> <<"AI", "chip">>, summary |-> <<"<p>", "new", "LLM", "</p>">>,
     link |-> "L7"]
\* Feeds with the undated entry.
UndatedFeeds == {<<EntryG>>, <<EntryA, EntryG>>}
\* A third in-window entry about the focus domain, with a link of its own.
EntryF ==
    [title |-> <<"GPT", "chip">>, link |-> "L6",
     published_parsed |-> forty_eight_hours_ago + 90]

\* In the window, about the focus domain by its summary, with an empty title.
EntryH ==
    [title |-> <<>>, summary |-> <<"new", "LLM">>, link |-> "L9",
     published_parsed |-> forty_eight_hours_ago + 120]
\* In the window, about the focus domain, without a link.
EntryI ==
    [title |-> <<"AI", "chip">>,
     published_parsed |-> forty_eight_hours_ago + 150]

\* Two feeds of five in-window entries each, with ten links; the k-th entries
\* of the two feeds have the same publish time.
LinkNo == <<"N1", "N2", "N3", "N4", "N5", "N6", "N7", "N8", "N9", "N10">>
NumberedEntry(n) ==
    [title |-> <<"market", "policy">>, summary |-> <<"rates">>, link |-> LinkNo[n],
     published_parsed |-> forty_eight_hours_ago + 60 * (((n - 1) % 5) + 1)]
FeedOne == [k \in 1..5 |-> NumberedEntry(k)]
FeedTwo == [k \in 1..5 |-> NumberedEntry(5 + k)]

\* Hits of the search API.
HitA ==
    [title |-> <<"AI", "chip">>, url |-> "L1", objectID |-> "1",
     points |-> 60, num_comments |-> 30,
     created_at_i |-> forty_eight_hours_ago + 90]
\* No url, no domain keyword in the title.
HitB ==
    [title |-> <<"rust", "release">>, objectID |-> "2",
     points |-> 0, num_comments |-> 0,
     created_at_i |-> forty_eight_hours_ago + 90]
\* Created one second before the window start; "ai" occurs in "maintain".
HitC ==
    [title |-> <<"maintain", "roads">>, url |-> "L3", objectID |-> "3",
     points |-> 10, num_comments |-> 0,
     created_at_i |-> forty_eight_hours_ago - 1]
Hits == {HitA, HitB, HitC}
\* A hit whose points are null in the JSON: hit.get('points', 0) is None, which
\* the flag stands for.
HitD ==
    [title |-> <<"GPT", "chip">>, url |-> "L8", objectID |-> "4",
     points_is_none |-> TRUE, num_comments |-> 0,
     created_at_i |-> forty_eight_hours_ago + 90]
\* Hit lists with the hit without points.
RaisingHitLists == {<<HitA, HitD>>, <<HitD, HitA>>}

\* <dt>/<dd> pairs of the arXiv listing page.
PaperA ==
    [paper_id |-> "arXiv:1", title |-> <<"sparse", "attention">>,
     authors |-> <<"Li">>, abstract |-> <<"short">>]
Papers == {PaperA}

SeqsUpTo(S, n) == UNION {[1..k -> S] : k \in 0..n}
Feeds == SeqsUpTo(FeedEntries, MaxEntries)
HitLists == SeqsUpTo(Hits, MaxHits)
Listings == SeqsUpTo(Papers, MaxPapers)

\* Every way a request can fail before a response is processed.
RssFailures == {"404", "403", "500", "Timeout", "ConnectionError"}

----------------------------------------------------------------------------
\* fetch_rss: the body of one attempt, from feedparser.parse on.

rss_ai_keywords ==
    {"ai", "artificial intelligence", "machine learning", "deep learning",
     "neural network", "llm", "gpt", "transformer", "AIGC", "RLHF"}

max_retries == 3
RssEntryLimit == 20
RssSourceCap == 5
TitleLimit == 150
SummaryLimit == 250

SourceLang(source) == Get(source, "lang", "en")

RssArticle(source, article_type, entry, pub_time, link_hash, summary, oid) ==
    [oid |-> oid,
     id |-> Prefix8(link_hash),
     title |-> Take(Get(entry, "title", <<>>), TitleLimit),
     link |-> Get(entry, "link", ""),
     source |-> source.name,
     summary |-> IF Len(summary) > SummaryLimit
                 THEN Append(Take(summary, SummaryLimit), "...") ELSE summary,
     category |-> Get(source, "category", "general"),
     lang |-> SourceLang(source),
     importance |-> 6,
     time |-> StrfMinute(pub_time),
     type |-> article_type,
     pub_time |-> pub_time]

WithTranslation(article, translated) ==
    Put(Put(article, "title_translated", translated.title),
        "summary_translated", translated.summary)

\* The pub_time of lines 587-594: published_parsed, else updated_parsed, else now.
EntryPubTime(entry) ==
    IF "published_parsed" \in DOMAIN entry THEN entry.published_parsed
    ELSE IF "updated_parsed" \in DOMAIN entry THEN entry.updated_parsed
    ELSE Now

\* datetime(*entry.published_parsed[:6]) raises TypeError on None.
EntryRaises(entry) == "published_parsed_is_none" \in DOMAIN entry

\* The for loop over feed.entries[:20]; st holds the pools and the locals
\* articles_added and seen_links, and whether the loop was left by an exception.
RECURSIVE RssLoop(_, _, _, _, _, _, _)
RssLoop(source, article_type, configured, entries, reply, i, st) ==
    IF i > Min(Len(entries), RssEntryLimit) \/ st.added >= RssSourceCap THEN st
    ELSE IF EntryRaises(entries[i]) THEN [st EXCEPT !.raised = TRUE]
    ELSE
      LET entry == entries[i]
          pub_time == EntryPubTime(entry)
          title == Get(entry, "title", <<>>)
          raw_summary == Get(entry, "summary", <<>>)
          link == Get(entry, "link", "")
          link_hash == Md5(link)
          summary == IF raw_summary # <<>>
                     THEN Take(GetText(raw_summary), SummaryLimit) ELSE raw_summary
          seen == [st EXCEPT !.seen = @ \cup {link_hash}]
          base == RssArticle(source, article_type, entry, pub_time, link_hash,
                             summary, Len(st.all) + 1)
          article == IF base.lang = "en"
                     THEN WithTranslation(base,
                              baidu_translate(configured, reply, title, summary))
                     ELSE base
          content == LowerText(title \o summary)
          ai_article == [article EXCEPT !.importance = 8]
          next ==
            IF pub_time < forty_eight_hours_ago THEN st
            ELSE IF title = <<>> \/ link = "" THEN st
            ELSE IF link_hash \in st.seen THEN st
            ELSE IF article_type = "ai"
            THEN IF AnyOccurs(rss_ai_keywords, content)
                 THEN [seen EXCEPT !.all = Append(@, ai_article),
                                   !.ai = Append(@, ai_article),
                                   !.added = @ + 1]
                 ELSE seen
            ELSE IF link_hash \notin {a.id : a \in Range(st.fact)}
                 THEN [seen EXCEPT !.all = Append(@, article),
                                   !.fact = Append(@, article),
                                   !.added = @ + 1]
                 ELSE seen
      IN RssLoop(source, article_type, configured, entries, reply, i + 1, next)

RssAttempt(source, article_type, configured, entries, reply, all, ai, fact) ==
    RssLoop(source, article_type, configured, entries, reply, 1,
            [all |-> all, ai |-> ai, fact |-> fact, added |-> 0, seen |-> {},
             raised |-> FALSE])

\* The for loop of fetch_rss_async over feed.entries[:20].
RECURSIVE RssLoopAsync(_, _, _, _, _, _, _)
RssLoopAsync(source, article_type, configured, entries, reply, i, st) ==
    IF i > Min(Len(entries), RssEntryLimit) \/ st.added >= RssSourceCap THEN st
    ELSE IF EntryRaises(entries[i]) THEN [st EXCEPT !.raised = TRUE]
    ELSE
      LET entry == entries[i]
          pub_time == EntryPubTime(entry)
          title == Get(entry, "title", <<>>)
          raw_summary == Get(entry, "summary", <<>>)
          link == Get(entry, "link", "")
          link_hash == Md5(link)
          summary == IF raw_summary # <<>>
                     THEN Take(GetText(raw_summary), SummaryLimit) ELSE raw_summary
          seen == [st EXCEPT !.seen = @ \cup {link_hash}]
          base == RssArticle(source, article_type, entry, pub_time, link_hash,
                             summary, Len(st.all) + 1)
          article == IF base.lang = "en"
                     THEN WithTranslation(base,
                              baidu_translate(configured, reply, title, summary))
                     ELSE base
          content == LowerText(title \o summary)
          ai_article == [article EXCEPT !.importance = 8]
          next ==
            IF pub_time < forty_eight_hours_ago THEN st
            ELSE IF link_hash \in st.seen THEN st
            ELSE IF article_type = "ai"
            THEN IF AnyOccurs(rss_ai_keywords, content)
                 THEN [seen EXCEPT !.all = Append(@, ai_article),
                                   !.ai = Append(@, ai_article),
                                   !.added = @ + 1]
                 ELSE seen
            ELSE IF link_hash \notin {a.id : a \in Range(st.fact)}
                 THEN [seen EXCEPT !.all = Append(@, article),
                                   !.fact = Append(@, article),
                                   !.added = @ + 1]
                 ELSE seen
      IN RssLoopAsync(source, article_type, configured, entries, reply, i + 1, next)

\* fetch_rss_async after a 200 response, up to the end of the loop.
RssAttemptAsync(source, article_type, configured, entries, reply, all, ai, fact) ==
    RssLoopAsync(source, article_type, configured, entries, reply, 1,
                 [all |-> all, ai |-> ai, fact |-> fact, added |-> 0, seen |-> {},
                  raised |-> FALSE])

----------------------------------------------------------------------------
\* fetch_hackernews: the body of one attempt, from response.json() on.

hn_keywords == {"ai", "llm", "gpt", "openai", "anthropic"}
HnHitLimit == 10

HnLink(hit) == Get(hit, "url", "item?id=" \o Get(hit, "objectID", "None"))

HnArticle(source, article_type, hit, oid) ==
    [oid |-> oid,
     id |-> [hn |-> Get(hit, "objectID", "")],
     title |-> Get(hit, "title", <<>>),
     link |-> HnLink(hit),
     source |-> source.name,
     points |-> Get(hit, "points", 0),
     comments |-> Get(hit, "num_comments", 0),
     category |-> Get(source, "category", "tech"),
     importance |-> Min(9, 6 + (Get(hit, "points", 0) \div 20)),
     time |-> StrfMinute(Get(hit, "created_at_i", 0)),
     type |-> article_type,
     lang |-> SourceLang(source),
     pub_time |-> Get(hit, "created_at_i", 0)]

\* The keyword gate as it would be if it did not look at article_type.
HnSkipsTitleInEveryMode(article_type, title) ==
    ~AnyOccurs(hn_keywords, LowerText(title))

\* `if article_type == 'ai' and not any(keyword in title.lower() ...): continue`
HnSkipsTitle(article_type, title) ==
    article_type = "ai" /\ ~AnyOccurs(hn_keywords, LowerText(title))

\* min(9, 6 + (hit.get('points', 0) // 20)) raises TypeError on None.
HitRaises(hit) == "points_is_none" \in DOMAIN hit

RECURSIVE HnLoop(_, _, _, _, _, _, _)
HnLoop(source, article_type, configured, hits, reply, i, st) ==
    IF i > Min(Len(hits), HnHitLimit) THEN st
    ELSE IF /\ Md5(HnLink(hits[i])) \notin st.seen
            /\ ~HnSkipsTitle(article_type, Get(hits[i], "title", <<>>))
            /\ HitRaises(hits[i])
    THEN [st EXCEPT !.raised = TRUE]
    ELSE
      LET hit == hits[i]
          link_hash == Md5(HnLink(hit))
          title == Get(hit, "title", <<>>)
          seen == [st EXCEPT !.seen = @ \cup {link_hash}]
          base == HnArticle(source, article_type, hit, Len(st.all) + 1)
          article == IF base.lang = "en"
                     THEN Put(base, "title_translated",
                              baidu_translate(configured, reply, title, <<>>).title)
                     ELSE base
          next ==
            IF link_hash \in st.seen THEN st
            ELSE IF HnSkipsTitle(article_type, title)
            THEN seen
            ELSE [seen EXCEPT !.all = Append(@, article),
                              !.ai = IF article_type = "ai" THEN Append(@, article) ELSE @,
                              !.fact = IF article_type = "ai" THEN @ ELSE Append(@, article),
                              !.added = @ + 1]
      IN HnLoop(source, article_type, configured, hits, reply, i + 1, next)

HnAttempt(source, article_type, configured, hits, reply, all, ai, fact) ==
    HnLoop(source, article_type, configured, hits, reply, 1,
           [all |-> all, ai |-> ai, fact |-> fact, added |-> 0, seen |-> {},
            raised |-> FALSE])

----------------------------------------------------------------------------
\* fetch_arxiv: the loop over zip(dt_list[:8], dd_list[:8]).

ArxivLimit == 8
ArxivTitleLimit == 120
ArxivAbstractLimit == 200

ArxivArticle(source, paper, oid) ==
    [oid |-> oid,
     id |-> [arxiv |-> paper.paper_id],
     \* "[paper]" stands for the code's prefix "[论文]"
     title |-> <<"[paper]">> \o Take(paper.title, ArxivTitleLimit),
     link |-> "arxiv.org/abs/" \o paper.paper_id,
     source |-> source.name,
     summary |-> IF Len(Get(paper, "abstract", <<>>)) > ArxivAbstractLimit
                 THEN Append(Take(paper.abstract, ArxivAbstractLimit), "...")
                 ELSE Get(paper, "abstract", <<>>),
     authors |-> Get(paper, "authors", <<>>),
     category |-> "research",
     importance |-> 9,
     time |-> StrfDay(Now),
     type |-> "ai",
     lang |-> "en",
     pub_time |-> Now]

RECURSIVE ArxivLoop(_, _, _, _, _, _)
ArxivLoop(source, configured, papers, reply, i, st) ==
    IF i > Min(Len(papers), ArxivLimit) THEN st
    ELSE
      LET base == ArxivArticle(source, papers[i], Len(st.all) + 1)
          article == WithTranslation(base,
                        baidu_translate(configured, reply, base.title, base.summary))
          next == IF "paper_id" \notin DOMAIN papers[i] \/ "title" \notin DOMAIN papers[i]
                  THEN st
                  ELSE [st EXCEPT !.all = Append(@, article),
                                  !.ai = Append(@, article),
                                  !.added = @ + 1]
      IN ArxivLoop(source, configured, papers, reply, i + 1, next)

ArxivAttempt(source, configured, papers, reply, all, ai, fact) ==
    ArxivLoop(source, configured, papers, reply, 1,
              [all |-> all, ai |-> ai, fact |-> fact, added |-> 0, seen |-> {}])

----------------------------------------------------------------------------
\* Python's sorted(..., reverse=True): descending by key, and items with equal
\* keys stay in their original order.  Keys are tuples of integers.

LexGt(k1, k2) ==
    \E i \in DOMAIN k1 : k1[i] > k2[i] /\ \A j \in 1..(i - 1) : k1[j] = k2[j]

\* x goes before the first item whose key is strictly smaller.
InsertDesc(sorted, x) ==
    LET smaller == {i \in DOMAIN sorted : LexGt(x.key, sorted[i].key)}
        at == IF smaller = {} THEN Len(sorted) + 1
              ELSE CHOOSE i \in smaller : \A j \in smaller : i <= j
    IN SubSeq(sorted, 1, at - 1) \o <<x>> \o SubSeq(sorted, at, Len(sorted))

RECURSIVE SortedDescFrom(_, _, _)
SortedDescFrom(items, i, acc) ==
    IF i > Len(items) THEN acc
    ELSE SortedDescFrom(items, i + 1, InsertDesc(acc, items[i]))

SortedReverse(items) == SortedDescFrom(items, 1, <<>>)

Values(items) == [i \in DOMAIN items |-> items[i].val]

----------------------------------------------------------------------------
\* fetch_fact_news, after its loop: dedup by id, sort, keep ten.

FactTop == 10

RECURSIVE UniqueById(_, _, _, _)
UniqueById(articles, i, unique_facts, seen_ids) ==
    IF i > Len(articles) THEN unique_facts
    ELSE IF articles[i].id \notin seen_ids
    THEN UniqueById(articles, i + 1, Append(unique_facts, articles[i]),
                    seen_ids \cup {articles[i].id})
    ELSE UniqueById(articles, i + 1, unique_facts, seen_ids)

FactSortKey(x) == <<Get(x, "importance", 5), x.time>>

\* The sort and the cut without the removal of repeated ids.
SortFactsOnly(articles) ==
    Take(Values(SortedReverse(
            [i \in DOMAIN articles |->
                [key |-> FactSortKey(articles[i]), val |-> articles[i]]])),
         FactTop)

DedupSortFacts(articles) ==
    LET unique_facts == UniqueById(articles, 1, <<>>, {})
        keyed == [i \in DOMAIN unique_facts |->
                    [key |-> FactSortKey(unique_facts[i]), val |-> unique_facts[i]]]
    IN Take(Values(SortedReverse(keyed)), FactTop)

----------------------------------------------------------------------------
\* _fallback_analysis.

\* The tags stand for 政治, 经济, 科技, 健康, 环境, AI相关 and 综合新闻.
fallback_groups ==
    << [tag |-> "politics", words |-> {"politics", "government", "policy"}],
       [tag |-> "economy", words |-> {"economy", "financial", "market"}],
       [tag |-> "tech", words |-> {"technology", "tech", "digital"}],
       [tag |-> "health", words |-> {"health", "medical"}],
       [tag |-> "environment", words |-> {"environment", "climate"}],
       [tag |-> "AI-related",
        words |-> {"ai", "llm", "gpt", "transformer", "reasoning", "agent",
                   "rlhf", "multimodal", "attention", "prompt", "benchmark",
                   "moe", "sparse", "diffusion", "rl", "nlp", "robotics"}] >>

\* The tags in the opposite order.
RECURSIVE MatchedTagsBackwards(_, _)
MatchedTagsBackwards(text, i) ==
    IF i > Len(fallback_groups) THEN <<>>
    ELSE MatchedTagsBackwards(text, i + 1) \o
         (IF AnyOccurs(fallback_groups[i].words, text)
          THEN <<fallback_groups[i].tag>> ELSE <<>>)

RECURSIVE MatchedTags(_, _)
MatchedTags(text, i) ==
    IF i > Len(fallback_groups) THEN <<>>
    ELSE (IF AnyOccurs(fallback_groups[i].words, text)
          THEN <<fallback_groups[i].tag>> ELSE <<>>) \o MatchedTags(text, i + 1)

fallback_analysis(article) ==
    LET text == LowerText(article.title \o Get(article, "summary", <<>>))
        matched == MatchedTags(text, 1)
        tags == IF matched = <<>> THEN <<"general news">> ELSE matched
    IN [content_summary |-> "no detailed summary",
        content_tags |-> tags,
        importance_level |-> "medium",
        impact_scope |-> "wide attention",
        attention_reason |-> "a report worth attention",
        key_points |-> tags]

----------------------------------------------------------------------------
\* fetch_arxiv_abstract and analyze_with_gemini.

AbstractReplies == {"error", "no_abstract_tag", "abstract"}

\* A cache that keeps no entry for a request that failed or found no abstract.
fetch_arxiv_abstract_forgetful(cache, url, reply) ==
    IF url \in DOMAIN cache THEN cache
    ELSE IF reply = "abstract" THEN Put(cache, url, <<"full", "abstract">>)
    ELSE cache

\* The cache after the call.
fetch_arxiv_abstract(cache, url, reply) ==
    IF url \in DOMAIN cache THEN cache
    ELSE IF reply = "abstract" THEN Put(cache, url, <<"full", "abstract">>)
    ELSE Put(cache, url, <<>>)

\* The call as an observer sees it: whether requests.get was called, and the
\* value returned ("" after a failure or a page without the abstract tag).
AbstractCall(cache, url, reply) ==
    [url |-> url,
     requested |-> url \notin DOMAIN cache,
     returned |-> Get(fetch_arxiv_abstract(cache, url, reply), url, <<>>)]

IsArxivLink(link) == \E p \in Papers : link = "arxiv.org/abs/" \o p.paper_id

AnalysisKeys ==
    {"content_summary", "content_tags", "importance_level", "impact_scope",
     "attention_reason", "key_points"}
FullJson ==
    [content_summary |-> "primary summary",
     content_tags |-> <<"LLM", "chips", "edge", "power">>,
     importance_level |-> "high",
     impact_scope |-> "industry",
     attention_reason |-> "new result",
     key_points |-> <<"point">>]
Restrict(d, keys) == [k \in keys |-> d[k]]
\* The JSON objects the service may answer: complete, or with a key left out.
JsonReplies ==
    {Restrict(FullJson, AnalysisKeys \ drop) :
        drop \in {{}, {"key_points"}, {"content_tags"}, {"importance_level"}}}
\* configure/GenerativeModel raising, generate_content raising (quota, network,
\* timeout), a text without {...}, a {...} that json.loads rejects, a JSON object.
GeminiReplies ==
    {[kind |-> k] : k \in {"configure_exception", "exception", "no_json", "bad_json"}}
    \cup {[kind |-> "json", json |-> j] : j \in JsonReplies}

\* analyze_with_gemini as it would be if json.loads were outside the try block:
\* a {...} that does not decode raises to the caller.
analyze_with_gemini_uncaught(article, has_key, cache, abstract_reply, reply) ==
    [raised |-> has_key /\ reply.kind = "bad_json",
     analysis |-> IF has_key /\ reply.kind = "json" THEN reply.json
                  ELSE fallback_analysis(article),
     cache |-> cache,
     abstract_calls |-> <<>>,
     primary_requested |-> has_key /\ reply.kind # "configure_exception"]

\* analyze_with_gemini as it would be if the abstract were fetched before the
\* test of the key.
analyze_with_gemini_abstract_first(article, has_key, cache, abstract_reply, reply) ==
    LET cache2 == IF IsArxivLink(article.link)
                  THEN fetch_arxiv_abstract(cache, article.link, abstract_reply)
                  ELSE cache
        calls == IF IsArxivLink(article.link)
                 THEN <<AbstractCall(cache, article.link, abstract_reply)>>
                 ELSE <<>>
    IN [raised |-> FALSE,
        analysis |-> IF has_key /\ reply.kind = "json" THEN reply.json
                     ELSE fallback_analysis(article),
        cache |-> cache2, abstract_calls |-> calls,
        primary_requested |-> has_key /\ reply.kind # "configure_exception"]

\* The value returned, the cache afterwards, and whether model.generate_content
\* was reached; no path raises to the caller.
analyze_with_gemini(article, has_key, cache, abstract_reply, reply) ==
    IF ~has_key THEN [raised |-> FALSE, analysis |-> fallback_analysis(article),
                      cache |-> cache, abstract_calls |-> <<>>,
                      primary_requested |-> FALSE]
    ELSE IF reply.kind = "configure_exception"
    THEN [raised |-> FALSE, analysis |-> fallback_analysis(article), cache |-> cache,
          abstract_calls |-> <<>>, primary_requested |-> FALSE]
    ELSE
      LET cache2 == IF IsArxivLink(article.link)
                    THEN fetch_arxiv_abstract(cache, article.link, abstract_reply)
                    ELSE cache
          calls == IF IsArxivLink(article.link)
                   THEN <<AbstractCall(cache, article.link, abstract_reply)>>
                   ELSE <<>>
      IN IF reply.kind = "json"
         THEN [raised |-> FALSE,
               analysis |-> IF "key_points" \notin DOMAIN reply.json
                            THEN Put(reply.json, "key_points",
                                     Take(Get(reply.json, "content_tags", <<>>), 3))
                            ELSE reply.json,
               cache |-> cache2, abstract_calls |-> calls,
               primary_requested |-> TRUE]
         ELSE [raised |-> FALSE, analysis |-> fallback_analysis(article),
               cache |-> cache2, abstract_calls |-> calls,
               primary_requested |-> TRUE]

----------------------------------------------------------------------------
\* generate_deep_analyses.

None == [none |-> TRUE]

AnalysisLimit == 3

ImportanceKey(x) == <<Get(x, "importance", 5)>>

\* The first `limit` articles in pool order, without the sort.
FirstArticles(articles, limit) == Take(articles, limit)

ImportantArticles(articles, limit) ==
    Take(Values(SortedReverse(
            [i \in DOMAIN articles |->
                [key |-> ImportanceKey(articles[i]), val |-> articles[i]]])),
         limit)

Upper(s) == IF s = "high" THEN "HIGH" ELSE s

\* The keys the f-string of lines 1001-1023 subscripts.
TextKeys ==
    {"content_tags", "importance_level", "impact_scope", "attention_reason",
     "key_points"}

\* The f-string: what it shows of the article and of the analysis.
AnalysisText(article, analysis) ==
    [title_display |-> Get(article, "title_translated", article.title),
     source |-> article.source,
     time |-> article.time,
     analysis_model |-> "Gemini",
     link |-> article.link,
     summary |-> Get(article, "summary_translated", Get(article, "summary", <<>>)),
     content_tags |-> analysis.content_tags,
     importance |-> Upper(analysis.importance_level),
     impact_scope |-> analysis.impact_scope,
     attention_reason |-> analysis.attention_reason,
     key_points |-> Take(analysis.key_points, 3)]

\* How the call of the primary service ended, as the caller could know it.
PrimaryOutcome(has_key, reply) ==
    IF ~has_key THEN "no_key"
    ELSE IF reply.kind = "json" THEN "answered" ELSE "failed"

\* One iteration of the for loop: the call, then the f-string, whose subscripts
\* raise KeyError on an analysis that lacks a key, then analyses.append.
AnalyzeOne(article, has_key, cache, abstract_reply, reply) ==
    LET r == analyze_with_gemini(article, has_key, cache, abstract_reply, reply)
        raised == r.raised \/ ~(TextKeys \subseteq DOMAIN r.analysis)
    IN [raised |-> raised,
        cache |-> r.cache,
        abstract_calls |-> r.abstract_calls,
        call |-> [article |-> article.oid,
                  primary |-> PrimaryOutcome(has_key, reply),
                  requested |-> r.primary_requested,
                  raised |-> r.raised,
                  analysis |-> r.analysis],
        entry |-> IF raised THEN None
                  ELSE [article |-> article,
                        analysis |-> r.analysis,
                        text |-> AnalysisText(article, r.analysis)]]

----------------------------------------------------------------------------
\* select_featured_articles.

FactScore(article) ==
    Get(article, "importance", 5)
    + (IF Get(article, "points", 0) > 50 THEN 1 ELSE 0)
    + (IF Get(article, "comments", 0) > 20 THEN 1 ELSE 0)

WithScore(article) == Put(article, "_score", FactScore(article))

FeaturedAi(articles) ==
    LET scored_ai == SortedReverse(
            [i \in DOMAIN articles |->
                [key |-> <<Get(articles[i], "importance", 5)>>, val |-> articles[i]]])
    IN scored_ai[1].val

\* FeaturedFact as it would be with the sort ascending (reverse=True left out).
FeaturedFactAscending(scored) ==
    LET scored_facts == SortedReverse(
            [i \in DOMAIN scored |->
                [key |-> <<0 - Get(scored[i], "_score", 5)>>, val |-> scored[i]]])
    IN scored_facts[1].val

FeaturedFact(scored) ==
    LET scored_facts == SortedReverse(
            [i \in DOMAIN scored |->
                [key |-> <<Get(scored[i], "_score", 5)>>, val |-> scored[i]]])
    IN scored_facts[1].val

\* A scoring that writes _score into every article of the pool.
ScoreAll(articles, fact_oids) ==
    [i \in DOMAIN articles |-> WithScore(articles[i])]

\* article['_score'] = score writes into the dict object, which all_articles
\* holds too.
ScoreFacts(articles, fact_oids) ==
    [i \in DOMAIN articles |->
        IF articles[i].oid \in fact_oids THEN WithScore(articles[i]) ELSE articles[i]]

----------------------------------------------------------------------------
\* generate_report, save_reports, _generate_error_report.

\* The headed blocks of the report, in the order they are written.
ReportSections(ai, fact, deep, f_article, f_fact) ==
    <<"overview">>
    \o (IF ai # <<>> THEN <<"ai_news">> ELSE <<>>)
    \o (IF ai # <<>> /\ deep # <<>> THEN <<"deep_analyses">> ELSE <<>>)
    \o (IF ai # <<>> /\ f_article # None THEN <<"ai_featured">> ELSE <<>>)
    \o (IF fact # <<>> THEN <<"fact_news">> ELSE <<>>)
    \o (IF fact # <<>> /\ f_fact # None THEN <<"fact_featured">> ELSE <<>>)
    \o <<"report_info">>

generate_report(ai, fact, deep, f_article, f_fact) ==
    [variant |-> "digest",
     title |-> [text |-> "digest", ai |-> Len(ai), fact |-> Len(fact)],
     ai_count |-> Len(ai),
     fact_count |-> Len(fact),
     deep_count |-> Len(deep),
     sections |-> ReportSections(ai, fact, deep, f_article, f_fact),
     analyses |-> [i \in DOMAIN deep |-> deep[i].text]]

PreviewLimit == 5
\* A preview that lists the whole pool.
PreviewAll(articles) ==
    [i \in 1..Len(articles) |->
        [title_display |-> Get(articles[i], "title_translated", articles[i].title),
         source |-> articles[i].source,
         link |-> articles[i].link]]

Preview(articles) ==
    [i \in 1..Min(PreviewLimit, Len(articles)) |->
        [title_display |-> Get(articles[i], "title_translated", articles[i].title),
         source |-> articles[i].source,
         link |-> articles[i].link]]

\* title: "fetch failed" is 抓取失败, "run failed" is 执行失败, "interrupted" is
\* 执行中断.
generate_error_report(title, ai, fact, deep) ==
    [variant |-> "error_report",
     title |-> [text |-> title],
     ai_count |-> Len(ai),
     fact_count |-> Len(fact),
     deep_count |-> Len(deep),
     ai_preview |-> Preview(ai),
     fact_preview |-> Preview(fact)]

NoResult == [variant |-> "none"]

----------------------------------------------------------------------------
\* What the remote ends do during a run.  RunEnv is the environment of the
\* whole run; FetchEnv is wider on what the news servers answer.

RunEnv ==
    [listings |-> {<<>>, <<PaperA>>},
     feeds |-> {<<>>, <<EntryA>>, <<EntryB>>},
     feeds_again |-> {<<>>, <<EntryA>>, <<EntryB>>},
     hitlists |-> {<<>>, <<HitA>>, <<HitB>>},
     hitlists_again |-> {<<>>, <<HitA>>, <<HitB>>},
     failures |-> {"Timeout"},
     baidu |-> {"error_msg", "both_lines"},
     gemini |-> {r \in GeminiReplies :
                    r.kind = "json" => r.json \in {FullJson,
                        Restrict(FullJson, AnalysisKeys \ {"content_tags"})}},
     abstracts |-> {"abstract"},
     disk |-> {"saved", "OSError"}]

\* Responses with many acceptable items, and few alternatives to each.
WideEnv ==
    [listings |-> {<<PaperA>>},
     feeds |-> {<<EntryA, EntryD, EntryF>>, <<EntryB>>},
     feeds_again |-> {<<EntryB>>},
     hitlists |-> {<<HitA, HitC>>, <<HitB>>},
     hitlists_again |-> {<<HitB>>},
     failures |-> {"Timeout"},
     baidu |-> {"error_msg"},
     gemini |-> {[kind |-> "exception"], [kind |-> "json", json |-> FullJson],
                 [kind |-> "json",
                  json |-> Restrict(FullJson, AnalysisKeys \ {"content_tags"})]},
     abstracts |-> {"abstract", "error"},
     disk |-> {"saved"}]

\* Responses that fill the fact pool beyond the ten articles fetch_fact_news
\* keeps.
FactsEnv ==
    [listings |-> {<<PaperA>>},
     feeds |-> {FeedOne, FeedTwo},
     feeds_again |-> {<<>>},
     hitlists |-> {<<HitA, HitB>>},
     hitlists_again |-> {<<>>},
     failures |-> {"Timeout"},
     baidu |-> {"error_msg"},
     gemini |-> {[kind |-> "exception"], [kind |-> "json", json |-> FullJson]},
     abstracts |-> {"abstract"},
     disk |-> {"saved"}]

FetchEnv ==
    [listings |-> Listings,
     feeds |-> Feeds \cup UndatedFeeds,
     feeds_again |-> SeqsUpTo(FeedEntries, 1) \cup {<<EntryA, EntryE>>},
     hitlists |-> HitLists \cup RaisingHitLists,
     hitlists_again |-> SeqsUpTo(Hits, 1) \cup {<<HitA, HitD>>},
     failures |-> RssFailures,
     baidu |-> BaiduReplies,
     gemini |-> GeminiReplies,
     abstracts |-> AbstractReplies,
     disk |-> {"saved", "OSError"}]

----------------------------------------------------------------------------
\* The state after EnhancedNewsAnalyzer() and the call of run().

Init ==
    /\ all_articles = <<>>
    /\ ai_articles = <<>>
    /\ fact_articles = <<>>
    /\ deep_analyses = <<>>
    /\ analyses = <<>>
    /\ featured_article = None
    /\ featured_fact = None
    /\ abstract_cache = <<>>
    /\ abstract_calls = <<>>
    /\ gemini_api_key \in BOOLEAN
    /\ baidu_configured \in BOOLEAN
    /\ entry_point \in {"run", "run_async"}
    /\ translated_item = [kind |-> "none"]
    /\ pc = "fetch_all_news"
    /\ src_idx = 1
    /\ attempt = 0
    /\ last_fetch = [kind |-> "none"]
    /\ analyze_calls = <<>>
    /\ report = NoResult
    /\ result = NoResult

\* The list the current fetch loop iterates and the article_type it passes.
Sources == IF pc = "fetch_all_news" THEN ai_news_sources ELSE fact_news_sources
ArticleType == IF pc = "fetch_all_news" THEN "ai" ELSE "fact"
\* The for loops of fetch_all_news / fetch_fact_news, which run() calls.
InFetchLoop ==
    /\ entry_point = "run"
    /\ pc \in {"fetch_all_news", "fetch_fact_news"}
    /\ src_idx <= Len(Sources)

\* The for loop of fetch_all_news / fetch_fact_news moves on; after the last AI
\* source run() calls fetch_fact_news.
NextSource ==
    /\ attempt' = 0
    /\ IF pc = "fetch_all_news" /\ src_idx = Len(ai_news_sources)
       THEN pc' = "fetch_fact_news" /\ src_idx' = 1
       ELSE pc' = pc /\ src_idx' = src_idx + 1

\* A retry loop that never gives up.
RetryWithoutLimit == attempt' = attempt + 1 /\ pc' = pc /\ src_idx' = src_idx

\* `if attempt < max_retries - 1: continue` else `return 0`.
RetryOrGiveUp ==
    IF attempt < max_retries - 1
    THEN attempt' = attempt + 1 /\ pc' = pc /\ src_idx' = src_idx
    ELSE NextSource

Fetched(status, response, reply, returned) ==
    [kind |-> Sources[src_idx].type, source |-> Sources[src_idx].name,
     type |-> ArticleType, attempt |-> attempt, status |-> status,
     response |-> response, reply |-> reply, base |-> Len(all_articles),
     returned |-> returned]

SetPools(st) ==
    /\ all_articles' = st.all
    /\ ai_articles' = st.ai
    /\ fact_articles' = st.fact

Pools == <<all_articles, ai_articles, fact_articles>>
Analysis == <<deep_analyses, analyses, featured_article, featured_fact,
              abstract_cache, abstract_calls,
                   analyze_calls, report, result>>
Environment == <<gemini_api_key, baidu_configured, entry_point, translated_item>>


\* The replies the translation API can give during one attempt; no request is
\* made without the keys or for a source whose lang is not 'en'.
TranslationReplies(E, source) ==
    IF baidu_configured /\ SourceLang(source) = "en" THEN E.baidu ELSE {"no_request"}

----------------------------------------------------------------------------
\* The fetchers, as fetch_all_news and fetch_fact_news call them.

\* fetch_arxiv: one request, no retry; a status other than 200 and any exception
\* leave the pools as they are.
FetchArxiv(E) ==
    /\ InFetchLoop
    /\ Sources[src_idx].type = "arxiv"
    /\ \/ \E failure \in E.failures :
            /\ last_fetch' = Fetched(failure, <<>>, "no_request", 0)
            /\ UNCHANGED Pools
       \/ \E papers \in E.listings, reply \in TranslationReplies(E, Sources[src_idx]) :
            LET st == ArxivAttempt(Sources[src_idx], baidu_configured, papers, reply,
                                   all_articles, ai_articles, fact_articles)
            IN /\ SetPools(st)
               /\ last_fetch' = Fetched("200", papers, reply, st.added)
    /\ NextSource
    /\ UNCHANGED <<Analysis, Environment>>

\* What the feed server may answer now: E.feeds, and E.feeds_again to the retry
\* that follows an attempt an entry ended with an exception.
FeedsNow(E) ==
    IF attempt > 0 /\ Get(last_fetch, "status", "none") = "Exception"
    THEN E.feeds_again ELSE E.feeds

\* One iteration of the retry loop of fetch_rss: the request fails, or it is
\* answered and the entries are processed; an exception raised by an entry ends
\* the attempt like a failed request, with the pools as they are by then.
FetchRssAttempt(E) ==
    /\ InFetchLoop
    /\ Sources[src_idx].type = "rss"
    /\ \/ \E failure \in E.failures :
            /\ last_fetch' = Fetched(failure, <<>>, "no_request", 0)
            /\ RetryOrGiveUp
            /\ UNCHANGED Pools
       \/ \E entries \in FeedsNow(E), reply \in TranslationReplies(E, Sources[src_idx]) :
            LET st == RssAttempt(Sources[src_idx], ArticleType, baidu_configured,
                                 entries, reply,
                                 all_articles, ai_articles, fact_articles)
            IN /\ SetPools(st)
               /\ IF st.raised
                  THEN /\ last_fetch' = Fetched("Exception", entries, reply, 0)
                       /\ RetryOrGiveUp
                  ELSE /\ last_fetch' = Fetched("200", entries, reply, st.added)
                       /\ NextSource
    /\ UNCHANGED <<Analysis, Environment>>

\* One iteration of the retry loop of fetch_hackernews.
\* What the search API may answer now: E.hitlists, and E.hitlists_again to the
\* retry that follows an attempt a hit ended with an exception.
HitsNow(E) ==
    IF attempt > 0 /\ Get(last_fetch, "status", "none") = "Exception"
    THEN E.hitlists_again ELSE E.hitlists

FetchHackernewsAttempt(E) ==
    /\ InFetchLoop
    /\ Sources[src_idx].type = "hn_api"
    /\ \/ \E failure \in E.failures :
            /\ last_fetch' = Fetched(failure, <<>>, "no_request", 0)
            /\ RetryOrGiveUp
            /\ UNCHANGED Pools
       \/ \E hits \in HitsNow(E), reply \in TranslationReplies(E, Sources[src_idx]) :
            LET st == HnAttempt(Sources[src_idx], ArticleType, baidu_configured,
                                hits, reply,
                                all_articles, ai_articles, fact_articles)
            IN /\ SetPools(st)
               /\ IF st.raised
                  THEN /\ last_fetch' = Fetched("Exception", hits, reply, 0)
                       /\ RetryOrGiveUp
                  ELSE /\ last_fetch' = Fetched("200", hits, reply, st.added)
                       /\ NextSource
    /\ UNCHANGED <<Analysis, Environment>>

\* fetch_fact_news after its loop: dedup by id, sort, keep ten.  The fetch
\* loops are over and the fetchers' locals are gone.
FetchFactNewsDedup ==
    /\ pc = "fetch_fact_news"
    /\ src_idx > Len(fact_news_sources)
    /\ fact_articles' = DedupSortFacts(fact_articles)
    /\ pc' = "analyze"
    /\ last_fetch' = [kind |-> "none"]
    /\ UNCHANGED <<all_articles, ai_articles, src_idx, attempt,
                   Analysis, Environment>>

----------------------------------------------------------------------------
\* run() after the two fetches.

\* run() as it would be without the emptiness test: it goes on to the analysis,
\* which returns [] at once, and to the selection.
EmptyRunGoesOn ==
    /\ pc = "analyze"
    /\ all_articles = <<>>
    /\ pc' = "select"
    /\ UNCHANGED <<Pools, Analysis, src_idx, attempt, last_fetch, Environment>>

\* `if not self.all_articles: return self._generate_error_report(...), "抓取失败"`
EmptyRun ==
    /\ pc = "analyze"
    /\ all_articles = <<>>
    /\ result' = generate_error_report("fetch failed", ai_articles, fact_articles,
                                       deep_analyses)
    /\ pc' = "done"
    /\ UNCHANGED <<Pools, deep_analyses, analyses, featured_article, featured_fact,
                   abstract_cache, abstract_calls,
                   analyze_calls, report, src_idx, attempt,
                   last_fetch, Environment>>

\* generate_deep_analyses with no AI article: `return []`.
NoDeepAnalyses ==
    /\ pc = "analyze"
    /\ all_articles # <<>>
    /\ ai_articles = <<>>
    /\ pc' = "select"
    /\ UNCHANGED <<Pools, Analysis, src_idx, attempt, last_fetch, Environment>>

\* One iteration of the loop of generate_deep_analyses; after the last one
\* self.deep_analyses is assigned.  An exception leaves the loop for the
\* `except Exception` of run(), which returns the error report.
AnalyzeArticle(E) ==
    /\ pc = "analyze"
    /\ ai_articles # <<>>
    /\ LET important == ImportantArticles(ai_articles, AnalysisLimit)
           i == Len(analyses) + 1
       IN \E reply \in (IF gemini_api_key THEN E.gemini ELSE {[kind |-> "no_request"]}),
             abstract_reply \in (IF gemini_api_key /\ IsArxivLink(important[i].link)
                                    /\ important[i].link \notin DOMAIN abstract_cache
                                 THEN E.abstracts ELSE {"no_request"}) :
            LET r == AnalyzeOne(important[i], gemini_api_key, abstract_cache,
                                abstract_reply, reply)
            IN /\ analyze_calls' = Append(analyze_calls, r.call)
               /\ abstract_cache' = r.cache
               /\ abstract_calls' = abstract_calls \o r.abstract_calls
               /\ IF r.raised
                  THEN /\ result' = generate_error_report("run failed", ai_articles,
                                        fact_articles, deep_analyses)
                       /\ pc' = "done"
                       /\ UNCHANGED <<analyses, deep_analyses>>
                  ELSE /\ analyses' = Append(analyses, r.entry)
                       /\ result' = result
                       /\ IF i = Len(important)
                          THEN deep_analyses' = analyses' /\ pc' = "select"
                          ELSE deep_analyses' = deep_analyses /\ pc' = pc
    /\ UNCHANGED <<Pools, featured_article, featured_fact, report, src_idx, attempt,
                   last_fetch, Environment>>

\* select_featured_articles.  The scores are written into the fact articles,
\* which all_articles holds too.
SelectFeaturedArticles ==
    /\ pc = "select"
    /\ LET fact_oids == {a.oid : a \in Range(fact_articles)}
           scored == ScoreFacts(fact_articles, fact_oids)
       IN /\ fact_articles' = scored
          /\ all_articles' = ScoreFacts(all_articles, fact_oids)
          /\ featured_article' = IF ai_articles # <<>> THEN FeaturedAi(ai_articles)
                                 ELSE featured_article
          /\ featured_fact' = IF fact_articles # <<>> THEN FeaturedFact(scored)
                              ELSE featured_fact
    /\ pc' = "report"
    /\ UNCHANGED <<ai_articles, deep_analyses, analyses, abstract_cache,
                   abstract_calls,
                   analyze_calls, report, result, src_idx, attempt, last_fetch,
                   Environment>>

GenerateReport ==
    /\ pc = "report"
    /\ report' = generate_report(ai_articles, fact_articles, deep_analyses,
                                 featured_article, featured_fact)
    /\ pc' = "save"
    /\ UNCHANGED <<Pools, deep_analyses, analyses, featured_article, featured_fact,
                   abstract_cache, abstract_calls,
                   analyze_calls, result, src_idx, attempt,
                   last_fetch, Environment>>

\* save_reports, then `return report, title`; an OSError of open/write goes to
\* the `except Exception` of run().
SaveReports(E) ==
    /\ pc = "save"
    /\ \E io \in E.disk :
          result' = IF io = "saved" THEN report
                    ELSE generate_error_report("run failed", ai_articles,
                                               fact_articles, deep_analyses)
    /\ pc' = "done"
    /\ UNCHANGED <<Pools, deep_analyses, analyses, featured_article, featured_fact,
                   abstract_cache, abstract_calls,
                   analyze_calls, report, src_idx, attempt,
                   last_fetch, Environment>>

\* run_async (with aiohttp installed): `await self.fetch_all_news_async()` is
\* its first step; EnhancedNewsAnalyzer defines no fetch_all_news_async and no
\* fetch_fact_news_async, the attribute lookup raises AttributeError before any
\* request, and the `except Exception` of run_async returns the error report.
run_async(ai, fact, deep) == generate_error_report("run failed", ai, fact, deep)

RunAsync ==
    /\ entry_point = "run_async"
    /\ pc = "fetch_all_news"
    /\ result' = run_async(ai_articles, fact_articles, deep_analyses)
    /\ pc' = "done"
    /\ UNCHANGED <<Pools, deep_analyses, analyses, featured_article, featured_fact,
                   abstract_cache, abstract_calls,
                   analyze_calls, report, src_idx, attempt,
                   last_fetch, Environment>>

----------------------------------------------------------------------------
\* The run under RunEnv.

Next ==
    \/ FetchArxiv(RunEnv)
    \/ FetchRssAttempt(RunEnv)
    \/ FetchHackernewsAttempt(RunEnv)
    \/ FetchFactNewsDedup
    \/ EmptyRun
    \/ NoDeepAnalyses
    \/ AnalyzeArticle(RunEnv)
    \/ SelectFeaturedArticles
    \/ GenerateReport
    \/ SaveReports(RunEnv)
    \/ RunAsync

Spec == Init /\ [][Next]_vars

----------------------------------------------------------------------------
\* The run under WideEnv, with a user who may press Ctrl-C.

\* KeyboardInterrupt raised while run() is between two steps of its try block,
\* or inside one: it is no Exception, so no handler of the fetchers or of the
\* analysis catches it, and `except KeyboardInterrupt` of run() returns the
\* error report over the pools as they are.
Interrupt ==
    /\ entry_point = "run"
    /\ pc # "done"
    /\ result' = generate_error_report("interrupted", ai_articles, fact_articles,
                                       deep_analyses)
    /\ pc' = "done"
    /\ UNCHANGED <<Pools, deep_analyses, analyses, featured_article, featured_fact,
                   abstract_cache, abstract_calls,
                   analyze_calls, report, src_idx, attempt,
                   last_fetch, Environment>>

NextWide ==
    \/ FetchArxiv(WideEnv)
    \/ FetchRssAttempt(WideEnv)
    \/ FetchHackernewsAttempt(WideEnv)
    \/ FetchFactNewsDedup
    \/ EmptyRun
    \/ NoDeepAnalyses
    \/ AnalyzeArticle(WideEnv)
    \/ SelectFeaturedArticles
    \/ GenerateReport
    \/ SaveReports(WideEnv)
    \/ Interrupt

SpecWide == Init /\ [][NextWide]_vars

----------------------------------------------------------------------------
\* The run under FactsEnv.

NextFacts ==
    \/ FetchArxiv(FactsEnv)
    \/ FetchRssAttempt(FactsEnv)
    \/ FetchHackernewsAttempt(FactsEnv)
    \/ FetchFactNewsDedup
    \/ EmptyRun
    \/ NoDeepAnalyses
    \/ AnalyzeArticle(FactsEnv)
    \/ SelectFeaturedArticles
    \/ GenerateReport
    \/ SaveReports(FactsEnv)

SpecFacts == Init /\ [][NextFacts]_vars

----------------------------------------------------------------------------
\* One analyzer whose fetch_arxiv_abstract is called again and again.

AbstractUrls == {"arxiv.org/abs/arXiv:1", "arxiv.org/abs/arXiv:2"}

CallFetchArxivAbstract ==
    /\ Len(abstract_calls) < MaxCalls
    /\ \E url \in AbstractUrls, reply \in AbstractReplies :
          /\ abstract_calls' = Append(abstract_calls,
                                      AbstractCall(abstract_cache, url, reply))
          /\ abstract_cache' = fetch_arxiv_abstract(abstract_cache, url, reply)
    /\ UNCHANGED <<Pools, deep_analyses, analyses, featured_article, featured_fact,
                   analyze_calls, report, result, pc, src_idx, attempt, last_fetch,
                   Environment>>

NextAbstract == CallFetchArxivAbstract

SpecAbstract == Init /\ [][NextAbstract]_vars

----------------------------------------------------------------------------
\* fetch_rss_async, called on its own up to MaxAsyncCalls times on one analyzer,
\* each time with a feed of up to MaxAsyncEntries entries.

MaxAsyncCalls == 2
MaxAsyncEntries == 2

AsyncEntries == {EntryA, EntryC, EntryD, EntryE, EntryH, EntryI}
AsyncFeeds == SeqsUpTo(AsyncEntries, MaxAsyncEntries)
AsyncFailures == {"Timeout", "HTTP 500"}

\* The rss sources of the two registries with the article_type their fetch
\* passes.
AsyncCalls ==
    {[source |-> ai_news_sources[2], type |-> "ai"],
     [source |-> fact_news_sources[1], type |-> "fact"],
     [source |-> fact_news_sources[2], type |-> "fact"]}

AsyncFetched(c, status, response, reply, returned) ==
    [kind |-> "fetch_rss_async", calls |-> Get(last_fetch, "calls", 0) + 1,
     source |-> c.source, type |-> c.type, status |-> status,
     response |-> response, reply |-> reply,
     before |-> [all |-> all_articles, ai |-> ai_articles, fact |-> fact_articles],
     returned |-> returned]

\* One call, with aiohttp installed (ASYNC_AVAILABLE): the request fails or is
\* answered with another status, and 0 is
\* returned; or the entries are processed, and an exception raised by an entry
\* ends the call with 0 returned and the pools as they are by then.
CallFetchRssAsync ==
    /\ Get(last_fetch, "calls", 0) < MaxAsyncCalls
    /\ \E c \in AsyncCalls :
         \/ \E failure \in AsyncFailures :
               /\ last_fetch' = AsyncFetched(c, failure, <<>>, "no_request", 0)
               /\ UNCHANGED Pools
         \/ \E entries \in AsyncFeeds,
               reply \in (IF baidu_configured /\ SourceLang(c.source) = "en"
                          THEN {"error_msg", "both_lines"} ELSE {"no_request"}) :
               LET st == RssAttemptAsync(c.source, c.type, baidu_configured,
                                         entries, reply,
                                         all_articles, ai_articles, fact_articles)
               IN /\ SetPools(st)
                  /\ last_fetch' =
                        IF st.raised
                        THEN AsyncFetched(c, "Exception", entries, reply, 0)
                        ELSE AsyncFetched(c, "200", entries, reply, st.added)
    /\ UNCHANGED <<Analysis, Environment, pc, src_idx, attempt>>

NextAsync == CallFetchRssAsync

SpecAsync == Init /\ [][NextAsync]_vars

----------------------------------------------------------------------------
\* _fallback_analysis, called once on its own with an article of up to MaxWords
\* words of title and of summary, or without a summary.

MaxWords == 2

FallbackWords ==
    {"policy", "market", "technology", "health", "climate", "AI", "maintain", "chip"}

FallbackArticles ==
    {[title |-> t] : t \in SeqsUpTo(FallbackWords, MaxWords) \ {<<>>}}
    \cup {[title |-> t, summary |-> m] :
             t \in SeqsUpTo(FallbackWords, MaxWords) \ {<<>>},
             m \in SeqsUpTo(FallbackWords, MaxWords)}

CallFallbackAnalysis ==
    /\ analyze_calls = <<>>
    /\ \E article \in FallbackArticles :
          analyze_calls' = <<[kind |-> "_fallback_analysis", article |-> article,
                             analysis |-> fallback_analysis(article)]>>
    /\ UNCHANGED <<Pools, deep_analyses, analyses, featured_article, featured_fact,
                   abstract_cache, abstract_calls, report, result, pc, src_idx,
                   attempt, last_fetch, Environment>>

NextFallback == CallFallbackAnalysis

SpecFallback == Init /\ [][NextFallback]_vars

----------------------------------------------------------------------------
\* The two translation functions, called on their own.

TextsToTranslate == {<<>>, <<"AI", "chip">>, Zh(<<"AI", "chip">>)}

\* The reply to the request translate_text makes for the text, if it makes one.
RepliesTo(app_configured, text) ==
    IF text # <<>> /\ app_configured /\ detect_language(text) # "zh"
    THEN TranslatorReplies ELSE {"no_request"}

TranslateNewsItem ==
    /\ \E app_configured, force_translate \in BOOLEAN,
          title \in TextsToTranslate, summary \in TextsToTranslate :
        \E title_reply \in RepliesTo(app_configured, title),
           summary_reply \in RepliesTo(app_configured, summary) :
          translated_item' =
              [kind |-> "translate_news_item",
               configured |-> app_configured,
               force_translate |-> force_translate,
               title |-> title, summary |-> summary,
               title_reply |-> title_reply, summary_reply |-> summary_reply,
               result |-> translate_news_item(app_configured, title_reply,
                                              summary_reply, force_translate,
                                              title, summary)]
    /\ UNCHANGED <<Pools, Analysis, pc, src_idx, attempt, last_fetch,
                   gemini_api_key, baidu_configured, entry_point>>

BaiduTranslate ==
    /\ \E title \in TextsToTranslate \ {<<>>}, summary \in TextsToTranslate,
          reply \in (IF baidu_configured THEN BaiduReplies ELSE {"no_request"}) :
          translated_item' =
              [kind |-> "baidu_translate",
               configured |-> baidu_configured,
               title |-> title, summary |-> summary, reply |-> reply,
               result |-> baidu_translate(baidu_configured, reply, title, summary)]
    /\ UNCHANGED <<Pools, Analysis, pc, src_idx, attempt, last_fetch,
                   gemini_api_key, baidu_configured, entry_point>>

NextTranslate ==
    \/ TranslateNewsItem
    \/ BaiduTranslate

SpecTranslate == Init /\ [][NextTranslate]_vars

----------------------------------------------------------------------------
\* The fetch loops alone, under FetchEnv, up to the first fetcher call that
\* puts an article into the pools: every request before that call failed or was
\* answered with nothing, the call's own retries are followed to its return.

NoResponseYet ==
    /\ Get(last_fetch, "status", "none") # "200"
    /\ all_articles = <<>> \/ attempt > 0

NextFetch ==
    \/ NoResponseYet /\ FetchArxiv(FetchEnv)
    \/ NoResponseYet /\ FetchRssAttempt(FetchEnv)
    \/ NoResponseYet /\ FetchHackernewsAttempt(FetchEnv)

SpecFetch == Init /\ [][NextFetch]_vars

----------------------------------------------------------------------------
\* Vocabulary of the properties.

Fetching == pc \in {"fetch_all_news", "fetch_fact_news"}
FetchesOver == entry_point = "run" /\ ~Fetching
Answered(kind) ==
    Fetching /\ last_fetch.kind = kind /\ Get(last_fetch, "status", "none") = "200"

\* The articles the last attempt appended.
Appended ==
    {all_articles[i] : i \in (Get(last_fetch, "base", 0) + 1)..Len(all_articles)}

NoTwoWithSameLink(pool) ==
    \A i, j \in DOMAIN pool : i # j => pool[i].link # pool[j].link

\* The score the selection is documented to use.
DocumentedScore(article) ==
    IF article.type = "ai" THEN article.importance
    ELSE article.importance
         + (IF "points" \in DOMAIN article /\ article.points > 50 THEN 1 ELSE 0)
         + (IF "comments" \in DOMAIN article /\ article.comments > 20 THEN 1 ELSE 0)

TopScored(pool) ==
    {a \in Range(pool) : \A b \in Range(pool) : DocumentedScore(b) <= DocumentedScore(a)}

Selected == pc \in {"report", "save"} \/ (pc = "done" /\ report # NoResult)

----------------------------------------------------------------------------
\* C1 (checked under Spec): once fetch_all_news and fetch_fact_news have
\* completed, no two articles of all_articles, of ai_articles or of
\* fact_articles have the same link.
C1_NoDuplicateLinks ==
    FetchesOver =>
        /\ NoTwoWithSameLink(all_articles)
        /\ NoTwoWithSameLink(ai_articles)
        /\ NoTwoWithSameLink(fact_articles)

\* C2 (checked under SpecFetch): every article a fetcher has put into the pool
\* was published at or after the window start.
C2_AcceptedWithinWindow ==
    \A a \in Range(all_articles) : a.pub_time >= forty_eight_hours_ago

C4_ProvenanceRecorded ==
    \A i \in DOMAIN deep_analyses :
        /\ {"provenance", "source"} \cap
              (DOMAIN deep_analyses[i] \cup DOMAIN deep_analyses[i].analysis) # {}
        /\ analyze_calls[i].primary # "answered" =>
              deep_analyses[i].text.analysis_model # "Gemini"

\* The translation failed for the articles of the last attempt: no keys, an
\* error response or an exception.
TranslationFailed ==
    ~baidu_configured \/ Get(last_fetch, "reply", "none") \in {"error_msg", "exception"}

\* The title the fetcher handed to baidu_translate for an article it built.
OriginalTitles(article) ==
    IF last_fetch.kind = "arxiv" THEN {article.title}
    ELSE {Get(x, "title", <<>>) : x \in Range(last_fetch.response)}

\* An item of the last response the fetcher accepts when translation works.
Acceptable(item) ==
    CASE last_fetch.kind = "arxiv" ->
            "paper_id" \in DOMAIN item /\ "title" \in DOMAIN item
      [] last_fetch.kind = "hn_api" ->
            last_fetch.type = "fact"
            \/ AnyOccurs(hn_keywords, LowerText(Get(item, "title", <<>>)))
      [] OTHER ->
            /\ EntryPubTime(item) >= forty_eight_hours_ago
            /\ Get(item, "title", <<>>) # <<>>
            /\ Get(item, "link", "") # ""
            /\ last_fetch.type = "ai" =>
                  AnyOccurs(rss_ai_keywords,
                            LowerText(Get(item, "title", <<>>)
                                      \o GetText(Get(item, "summary", <<>>))))

RunRaised ==
    \/ report # NoResult
    \/ /\ analyze_calls # <<>>
       /\ ~(TextKeys \subseteq DOMAIN analyze_calls[Len(analyze_calls)].analysis)

C6_TieGoesToEarliestFetched ==
    Selected =>
        /\ featured_article # None =>
              \A a \in TopScored(ai_articles) : featured_article.oid <= a.oid
        /\ featured_fact # None =>
              \A a \in TopScored(fact_articles) : featured_fact.oid <= a.oid

InWindowLinks(entries) ==
    {Get(entries[i], "link", "") :
        i \in {k \in 1..Min(Len(entries), RssEntryLimit) :
                  EntryPubTime(entries[k]) >= forty_eight_hours_ago}}

\* C8 (checked under SpecFetch): one fetch of a feed accepts exactly one article
\* per distinct link among the in-window entries, up to the per-source cap.
C8_OnePerDistinctInWindowLink ==
    Answered("rss") =>
        /\ last_fetch.returned =
              Min(RssSourceCap, Cardinality(InWindowLinks(last_fetch.response)))
        /\ Cardinality(Appended) = last_fetch.returned
        /\ \A a \in Appended : a.link \in InWindowLinks(last_fetch.response)

\* C9 (checked under Spec): a run whose fetches left all_articles empty ends
\* with the error report titled "fetch failed" as its result; nothing was
\* analysed, selected or composed, and the run never is at the selection, the
\* report or the save.
C9_EmptyRunReport ==
    (FetchesOver /\ all_articles = <<>>) =>
        /\ pc \in {"analyze", "done"}
        /\ analyze_calls = <<>>
        /\ deep_analyses = <<>>
        /\ featured_article = None
        /\ featured_fact = None
        /\ report = NoResult
        /\ pc = "done" =>
              /\ result.variant = "error_report"
              /\ result.title.text = "fetch failed"
              /\ result.ai_count = 0
              /\ result.fact_count = 0

\* A finished run in which no source contributed an article.
C9_Witness ==
    /\ entry_point = "run"
    /\ pc = "done"
    /\ all_articles = <<>>
    /\ result.variant = "error_report"

\* The hits of the last search response (as far as fetch_hackernews reads it)
\* whose title has none of the domain keywords.
KeywordlessHits ==
    {last_fetch.response[i] :
        i \in {k \in 1..Min(Len(last_fetch.response), HnHitLimit) :
                  ~\E w \in {"ai", "llm", "gpt", "openai", "anthropic"} :
                      Occurs(w, LowerText(Get(last_fetch.response[k], "title", <<>>)))}}

HasId(pool, hit) == \E a \in Range(pool) : a.id = [hn |-> hit.objectID]

\* C10 (checked under SpecFetch): fetch_hackernews with article_type 'fact'
\* puts every hit without a domain keyword in its title into fact_articles and
\* all_articles; with article_type 'ai' it puts such a hit into no pool.
C10_GeneralAcceptsFocusRejects ==
    Answered("hn_api") =>
        \A hit \in KeywordlessHits :
            IF last_fetch.type = "fact"
            THEN /\ HasId(fact_articles, hit)
                 /\ HasId(all_articles, hit)
                 /\ ~HasId(ai_articles, hit)
            ELSE /\ ~HasId(all_articles, hit)
                 /\ ~HasId(ai_articles, hit)
                 /\ ~HasId(fact_articles, hit)

\* A general-mode fetch that accepted a hit without a domain keyword next to
\* one with a keyword.
C10_Witness ==
    /\ Answered("hn_api")
    /\ last_fetch.type = "fact"
    /\ KeywordlessHits # {}
    /\ \A hit \in KeywordlessHits : HasId(fact_articles, hit)
    /\ last_fetch.returned = 2

----------------------------------------------------------------------------
\* The last attempt failed and the fetcher has returned: fetch_arxiv makes one
\* attempt, the others give up after the last of max_retries.
GaveUp ==
    /\ Fetching
    /\ last_fetch.kind # "none"
    /\ Get(last_fetch, "status", "none") # "200"
    /\ last_fetch.kind = "arxiv" \/ Get(last_fetch, "attempt", 0) = max_retries - 1

IndexOf(name, sources) == CHOOSE i \in DOMAIN sources : sources[i].name = name

\* The fetch loops are at the source that follows the one of the last attempt.
AtSourceAfterLast ==
    /\ attempt = 0
    /\ IF last_fetch.type = "fact"
       THEN /\ pc = "fetch_fact_news"
            /\ src_idx = IndexOf(last_fetch.source, fact_news_sources) + 1
       ELSE IF IndexOf(last_fetch.source, ai_news_sources) = Len(ai_news_sources)
       THEN pc = "fetch_fact_news" /\ src_idx = 1
       ELSE /\ pc = "fetch_all_news"
            /\ src_idx = IndexOf(last_fetch.source, ai_news_sources) + 1

FromSource(pool, name) == {a \in Range(pool) : a.source = name}

\* C11 (checked under SpecFetch): when the fetch of a source has failed (error
\* status, timeout, or an exception while the response is processed), the pools
\* hold no article of that source and the loop is at the next source.
C11_FailedSourceContributesNothing ==
    GaveUp =>
        /\ FromSource(all_articles, last_fetch.source) = {}
        /\ FromSource(ai_articles, last_fetch.source) = {}
        /\ FromSource(fact_articles, last_fetch.source) = {}
        /\ AtSourceAfterLast

----------------------------------------------------------------------------
FailedAttempt == last_fetch.kind # "none" /\ Get(last_fetch, "status", "none") # "200"

\* C12 (checked under SpecFetch): a fetcher makes at most max_retries = 3
\* attempts on its source; an attempt after the first is made only after a
\* failed attempt on the same source; after a successful attempt, and after the
\* last failed one (which returns 0), the loop is at the next source.
C12_AtMostThreeAttempts ==
    /\ attempt \in 0 .. max_retries - 1
    /\ last_fetch.kind # "none" => last_fetch.attempt \in 0 .. max_retries - 1
    /\ (Fetching /\ attempt > 0) =>
          /\ FailedAttempt
          /\ last_fetch.source = Sources[src_idx].name
          /\ last_fetch.attempt = attempt - 1
    /\ (Fetching /\ Get(last_fetch, "status", "none") = "200") => AtSourceAfterLast
    /\ GaveUp => last_fetch.returned = 0 /\ AtSourceAfterLast

\* The third attempt on a feed or on the search API failed and the fetcher
\* gave up.
C12_Witness ==
    /\ GaveUp
    /\ last_fetch.kind \in {"rss", "hn_api"}
    /\ last_fetch.attempt = max_retries - 1
    /\ AtSourceAfterLast

----------------------------------------------------------------------------
\* The failures a later attempt can get past.
TransientFailures == {"Timeout", "ConnectionError", "403", "404", "500"}

\* C13 (checked under SpecFetch): for every kind of fetcher (feed, HTML
\* listing, search API), after a first attempt that failed with a timeout, a
\* connection error or HTTP 403/404/5xx the fetcher is about to make a second
\* attempt on the same source, so that an answer to it is accepted.
C13_TransientFailureIsRetried ==
    (/\ Fetching
     /\ FailedAttempt
     /\ last_fetch.attempt = 0
     /\ last_fetch.status \in TransientFailures)
    => /\ attempt = 1
       /\ InFetchLoop
       /\ Sources[src_idx].name = last_fetch.source

----------------------------------------------------------------------------
FailureTitles == {"fetch failed", "run failed"}

\* C14 (checked under Spec): run() returns a report titled "fetch failed" or
\* "run failed" only when no article was collected; with a non-empty pool a
\* failure of the analysis service (a malformed answer included), of the
\* translation or of saving the report still ends in the digest.
C14_FailureReportOnlyWhenEmpty ==
    (pc = "done" /\ result.variant = "error_report"
        /\ result.title.text \in FailureTitles)
    => all_articles = <<>>

----------------------------------------------------------------------------
\* C15 (checked under Spec): every analysis analyze_with_gemini returned has a
\* tag list (content_tags) and an importance level (importance_level); an
\* answer of the primary service that decodes as JSON but lacks one of them is
\* replaced by the fallback analysis.
C15_AnalysisHasTagsAndLevel ==
    \A i \in DOMAIN analyze_calls :
        {"content_tags", "importance_level"} \subseteq DOMAIN analyze_calls[i].analysis

----------------------------------------------------------------------------
\* The sections of the digest whose input can be empty: the focus summary by
\* category, the deep analyses and the featured item.
InputSections == {"ai_news", "deep_analyses", "ai_featured"}

\* C16 (checked under Spec): the digest generate_report builds has every
\* section, the overview and the ones whose input may be empty (no AI article,
\* no analysis, no featured item); none is left out.
C16_EverySectionRendered ==
    report # NoResult =>
        ({"overview"} \cup InputSections) \subseteq Range(report.sections)

----------------------------------------------------------------------------
\* The analyzer after run_async() on a new analyzer, whatever the sources would
\* answer: no request is made.
AfterRunAsync ==
    [result |-> run_async(<<>>, <<>>, <<>>),
     all_articles |-> <<>>,
     featured_article |-> None,
     featured_fact |-> None]

\* C17 (checked under Spec): for the same responses of the sources, run() and
\* run_async() return a report of the same variant, built from the same set of
\* accepted articles, with the same featured selection.
C17_AsyncAgreesWithSync ==
    (entry_point = "run" /\ pc = "done") =>
        /\ result.variant = AfterRunAsync.result.variant
        /\ Range(all_articles) = Range(AfterRunAsync.all_articles)
        /\ featured_article = AfterRunAsync.featured_article
        /\ featured_fact = AfterRunAsync.featured_fact

\* run_async has returned.
AsyncReturned == entry_point = "run_async" /\ pc = "done" /\ result = AfterRunAsync.result

----------------------------------------------------------------------------
Interrupted ==
    pc = "done" /\ result.variant = "error_report" /\ result.title.text = "interrupted"

IsPreviewOf(preview, pool) ==
    /\ Len(preview) = Min(5, Len(pool))
    /\ \A i \in DOMAIN preview :
          /\ preview[i].link = pool[i].link
          /\ preview[i].source = pool[i].source
          /\ preview[i].title_display \in {pool[i].title, Get(pool[i], "title_translated", <<>>)}

\* C18 (checked under SpecWide): a run interrupted at any step returns the
\* report titled "interrupted"; its AI and fact counts are the sizes of the
\* pools at the interruption, and it lists the first articles of each pool, at
\* most 5 per pool.
C18_InterruptedRunReports ==
    /\ Interrupted =>
          /\ result.ai_count = Len(ai_articles)
          /\ result.fact_count = Len(fact_articles)
          /\ IsPreviewOf(result.ai_preview, ai_articles)
          /\ IsPreviewOf(result.fact_preview, fact_articles)
    /\ (pc = "done" /\ entry_point = "run") => result.variant \in {"digest", "error_report"}

\* An interruption with more than five AI articles and some fact articles
\* gathered.
C18_Witness ==
    /\ Interrupted
    /\ Len(ai_articles) > 5
    /\ fact_articles # <<>>
    /\ Len(result.ai_preview) = 5

----------------------------------------------------------------------------
\* generate_deep_analyses has returned.
DeepAnalysesReturned ==
    /\ entry_point = "run"
    /\ pc \in {"select", "report", "save"} \/ (pc = "done" /\ report # NoResult)

Analyzed == {analyze_calls[i].article : i \in DOMAIN analyze_calls}
AiOids == {a.oid : a \in Range(ai_articles)}
ImportanceOf(a) == Get(a, "importance", 5)

\* `chosen` (a set of articles) is a choice of min(K, |pool|) articles of the
\* pool that leaves out no article more important than a chosen one.
IsTopChoice(chosen, K, pool) ==
    /\ Cardinality(chosen) = Min(K, Len(pool))
    /\ chosen \subseteq Range(pool)
    /\ \A a \in chosen, u \in Range(pool) \ chosen : ImportanceOf(u) <= ImportanceOf(a)

\* C19 (checked under SpecWide): generate_deep_analyses(limit=K) analyzes
\* exactly min(K, |ai_articles|) articles, all of them AI articles, and leaves
\* out no AI article strictly more important than an analyzed one; an article
\* outside ai_articles is never analyzed.  The run calls it with K = 3; the
\* choice it makes is checked for every K up to the pool size + 1.
C19_AnalyzesTheMostImportant ==
    /\ Analyzed \subseteq AiOids
    /\ Analyzed \subseteq
          {a.oid : a \in Range(ImportantArticles(ai_articles, AnalysisLimit))}
    /\ DeepAnalysesReturned =>
          /\ Len(analyze_calls) = Min(AnalysisLimit, Len(ai_articles))
          /\ IsTopChoice({a \in Range(ai_articles) : a.oid \in Analyzed},
                         AnalysisLimit, ai_articles)
    /\ \A K \in 0 .. Len(ai_articles) + 1 :
          LET chosen == ImportantArticles(ai_articles, K)
          IN /\ Len(chosen) = Min(K, Len(ai_articles))
             /\ IsTopChoice(Range(chosen), K, ai_articles)

\* More AI articles than the limit, and an analyzed one that stands behind an
\* unanalyzed one in the pool.
C19_Witness ==
    /\ DeepAnalysesReturned
    /\ Len(ai_articles) > AnalysisLimit
    /\ fact_articles # <<>>
    /\ \E i, j \in DOMAIN ai_articles :
          /\ i < j
          /\ ai_articles[i].oid \notin Analyzed
          /\ ai_articles[j].oid \in Analyzed

----------------------------------------------------------------------------
RequestsFor(url) ==
    {i \in DOMAIN abstract_calls :
        abstract_calls[i].url = url /\ abstract_calls[i].requested}

\* C20 (checked under SpecAbstract): over any sequence of fetch_arxiv_abstract
\* calls on one analyzer at most one request is issued per URL; a later call
\* with a URL already asked for issues no request and returns what the first
\* call returned, which is the empty string when the first request failed or
\* found no abstract.
C20_OneRequestPerUrl ==
    /\ \A url \in AbstractUrls : Cardinality(RequestsFor(url)) <= 1
    /\ \A i, j \in DOMAIN abstract_calls :
          (i < j /\ abstract_calls[i].url = abstract_calls[j].url) =>
             /\ ~abstract_calls[j].requested
             /\ abstract_calls[j].returned = abstract_calls[i].returned
    /\ \A url \in DOMAIN abstract_cache :
          /\ Cardinality(RequestsFor(url)) = 1
          /\ \A i \in DOMAIN abstract_calls :
                abstract_calls[i].url = url =>
                    abstract_calls[i].returned = abstract_cache[url]

\* A URL whose first request failed or found no abstract was asked for again.
C20_Witness ==
    \E i, j \in DOMAIN abstract_calls :
        /\ i < j
        /\ abstract_calls[i].url = abstract_calls[j].url
        /\ abstract_calls[i].requested
        /\ abstract_calls[i].returned = <<>>
        /\ abstract_calls[j].returned = <<>>
        /\ Len(abstract_calls) = MaxCalls

----------------------------------------------------------------------------
\* An entry of a feed that passes the window and the empty-field checks.
WellFormedInWindow(item) ==
    /\ ~EntryRaises(item)
    /\ EntryPubTime(item) >= forty_eight_hours_ago
    /\ Get(item, "title", <<>>) # <<>>
    /\ Get(item, "link", "") # ""

AiRelated(item) ==
    AnyOccurs(rss_ai_keywords,
              LowerText(Get(item, "title", <<>>) \o GetText(Get(item, "summary", <<>>))))

\* The articles the last attempt built from the entry.
BuiltFrom(item, pool) ==
    {a \in Appended \cap Range(pool) :
        a.link = Get(item, "link", "") /\ a.title = Get(item, "title", <<>>)}

\* C21 (checked under SpecFetch): an entry of an AI source's feed that has no
\* AI keyword in title + summary is still appended to all_articles, and is not
\* appended to ai_articles.
C21_UnrelatedEntryKeptInAllOnly ==
    (Answered("rss") /\ last_fetch.type = "ai") =>
        \A i \in DOMAIN last_fetch.response :
            LET item == last_fetch.response[i]
            IN (/\ WellFormedInWindow(item)
                /\ ~AiRelated(item)
                /\ \A k \in 1 .. i - 1 :
                      Get(last_fetch.response[k], "link", "") # Get(item, "link", ""))
               => /\ BuiltFrom(item, all_articles) # {}
                  /\ BuiltFrom(item, ai_articles) = {}

----------------------------------------------------------------------------
Undated(item) ==
    /\ ~EntryRaises(item)
    /\ "published_parsed" \notin DOMAIN item
    /\ "updated_parsed" \notin DOMAIN item

SourceNamed(name) ==
    CHOOSE src \in Range(ai_news_sources) \cup Range(fact_news_sources) : src.name = name

\* The importance fetch_rss gives the entry when the feed tells its publish
\* time (here: the fetch time itself).
ImportanceWhenDated(item) ==
    LET st == RssAttempt(SourceNamed(last_fetch.source), last_fetch.type,
                         baidu_configured, <<Put(item, "published_parsed", Now)>>,
                         last_fetch.reply, <<>>, <<>>, <<>>)
    IN st.all[1].importance

\* C22 (checked under SpecFetch): a feed entry without a publish time is
\* accepted with the fetch time as its publish time, and with an importance
\* strictly lower than the one the same entry gets with a known publish time.
C22_UndatedEntryRanksLower ==
    Answered("rss") =>
        \A i \in DOMAIN last_fetch.response :
            LET item == last_fetch.response[i]
            IN (/\ Undated(item)
                /\ WellFormedInWindow(item)
                /\ last_fetch.type = "ai" => AiRelated(item)
                /\ \A k \in 1 .. i - 1 :
                      Get(last_fetch.response[k], "link", "") # Get(item, "link", ""))
               => \E a \in BuiltFrom(item, all_articles) :
                     /\ a.pub_time = Now
                     /\ a.time = StrfMinute(Now)
                     /\ a.importance < ImportanceWhenDated(item)

----------------------------------------------------------------------------
\* translate_text did not produce a translation of the text: no keys, an error
\* answer, a timeout or another request failure.
TextFailed(app_configured, reply, text) ==
    text # <<>> /\ translate_text(app_configured, reply, text) = NoneStr

\* C23 (checked under SpecTranslate): neither translate_news_item nor
\* baidu_translate writes the empty string where the translation of the title
\* or of the summary failed; the failure is recorded by a marker, which a
\* successful translation to the empty string is not.
C23_FailureIsNotTheEmptyString ==
    /\ (translated_item.kind = "translate_news_item"
          /\ "note" \notin DOMAIN translated_item.result) =>
          /\ TextFailed(translated_item.configured, translated_item.title_reply,
                        translated_item.title)
                => translated_item.result.translated.title # <<>>
          /\ TextFailed(translated_item.configured, translated_item.summary_reply,
                        translated_item.summary)
                => translated_item.result.translated.summary # <<>>
    /\ (translated_item.kind = "baidu_translate"
          /\ (~translated_item.configured
                \/ translated_item.reply \in {"error_msg", "exception"})) =>
          /\ translated_item.result.title # <<>>
          /\ translated_item.result.summary # <<>>

----------------------------------------------------------------------------
ItemRaises(item) == EntryRaises(item) \/ HitRaises(item)
ItemLink(item) ==
    IF last_fetch.kind = "hn_api" THEN HnLink(item) ELSE Get(item, "link", "")

\* How many articles of the source of the last attempt all_articles holds for
\* the item.
TimesAccepted(item) ==
    Cardinality({k \in DOMAIN all_articles :
                    /\ all_articles[k].source = last_fetch.source
                    /\ all_articles[k].link = ItemLink(item)
                    /\ all_articles[k].title = Get(item, "title", <<>>)})

\* The fetcher has returned, and the processing of an item of the last response
\* raised.
ReturnedAfterItemRaised == GaveUp /\ last_fetch.status = "Exception"

\* C24 (checked under SpecFetch): when the processing of one item of a response
\* raises, only that item is skipped; every other acceptable item of the
\* response, before and after it, is accepted exactly once.
C24_OnlyTheOffendingItemSkipped ==
    ReturnedAfterItemRaised =>
        \A i \in DOMAIN last_fetch.response :
            LET item == last_fetch.response[i]
            IN (/\ ~ItemRaises(item)
                /\ Acceptable(item)
                /\ \A k \in 1 .. i - 1 : ItemLink(last_fetch.response[k]) # ItemLink(item))
               => TimesAccepted(item) = 1

----------------------------------------------------------------------------
\* fetch_rss or fetch_hackernews has returned from the call for the source of
\* the last attempt.
RetryingFetcherReturned ==
    /\ Fetching
    /\ last_fetch.kind \in {"rss", "hn_api"}
    /\ Get(last_fetch, "status", "none") = "200" \/ GaveUp

\* The positions of the pool that hold an article of the source.
PositionsOf(pool, name) == {k \in DOMAIN pool : pool[k].source = name}

LinksOnce(pool, name) ==
    \A i, j \in PositionsOf(pool, name) : i # j => pool[i].link # pool[j].link

\* C25 (checked under SpecFetch): when a call of fetch_rss or fetch_hackernews
\* returns, no link of the source occurs twice in all_articles, ai_articles or
\* fact_articles (a retry appends nothing an earlier attempt appended), and
\* the count returned is the number of articles the call added.
C25_RetryAppendsNothingTwice ==
    RetryingFetcherReturned =>
        /\ LinksOnce(all_articles, last_fetch.source)
        /\ LinksOnce(ai_articles, last_fetch.source)
        /\ LinksOnce(fact_articles, last_fetch.source)
        /\ last_fetch.returned = Cardinality(PositionsOf(all_articles, last_fetch.source))

----------------------------------------------------------------------------
\* C26 (checked under SpecFacts): at every point of a run every article of
\* ai_articles and of fact_articles is also in all_articles, every analyzed
\* article is in ai_articles or fact_articles, and so is every featured one.
C26_PoolsWithinAllArticles ==
    /\ Range(ai_articles) \subseteq Range(all_articles)
    /\ Range(fact_articles) \subseteq Range(all_articles)
    /\ \A i \in DOMAIN analyze_calls :
          analyze_calls[i].article \in
              {a.oid : a \in Range(ai_articles) \cup Range(fact_articles)}
    /\ \A i \in DOMAIN analyses :
          analyses[i].article \in Range(ai_articles) \cup Range(fact_articles)
    /\ \A i \in DOMAIN deep_analyses :
          deep_analyses[i].article \in Range(ai_articles) \cup Range(fact_articles)
    /\ featured_article # None =>
          featured_article \in Range(ai_articles) \cup Range(fact_articles)
    /\ featured_fact # None =>
          featured_fact \in Range(ai_articles) \cup Range(fact_articles)

\* After the selection, with a fact pool that was cut to ten articles and both
\* featured articles chosen.
C26_Witness ==
    /\ pc \in {"report", "save", "done"}
    /\ Len(fact_articles) = FactTop
    /\ Cardinality({k \in DOMAIN all_articles : all_articles[k].type = "fact"}) > FactTop
    /\ analyze_calls # <<>>
    /\ featured_article # None
    /\ featured_fact # None

----------------------------------------------------------------------------
\* The step of fetch_fact_news that replaces the fetched fact pool by the kept
\* one.
FactNewsCut == pc = "fetch_fact_news" /\ pc' = "analyze"

RanksAtLeast(a, b) ==
    \/ a.importance > b.importance
    \/ a.importance = b.importance /\ a.time >= b.time

KeptFacts(fetched, kept) ==
    /\ Len(kept) <= FactTop
    /\ \A i, j \in DOMAIN kept : i # j => kept[i].id # kept[j].id
    /\ \A i, j \in DOMAIN kept : i < j => RanksAtLeast(kept[i], kept[j])
    /\ Range(kept) \subseteq Range(fetched)
    /\ \A k \in DOMAIN fetched :
          fetched[k] \notin Range(kept) =>
              \/ \E e \in 1..(k - 1) : fetched[e].id = fetched[k].id
              \/ /\ Len(kept) = FactTop
                 /\ \A i \in DOMAIN kept : RanksAtLeast(kept[i], fetched[k])

----------------------------------------------------------------------------
\* The names of the keyword groups in the order 政治, 经济, 科技, 健康, 环境,
\* AI相关, and the generic tag 综合新闻.
GroupNames == <<"politics", "economy", "tech", "health", "environment", "AI-related">>
GenericTag == "general news"

\* The groups of which a keyword occurs in the lower-cased title and summary.
GroupsMatching(article) ==
    LET text == LowerText(article.title \o Get(article, "summary", <<>>))
    IN {g \in DOMAIN GroupNames :
           \E w \in fallback_groups[g].words, i \in DOMAIN text :
              w \in SubstringsOf(text[i])}

FallbackCalled ==
    analyze_calls # <<>> /\ Get(analyze_calls[1], "kind", "") = "_fallback_analysis"

\* C28 (checked under SpecFallback): _fallback_analysis returns, for every
\* article, as tags exactly the names of the keyword groups that match
\* title+summary, in the fixed order of the groups; the tags are the single
\* generic tag if and only if no group matches; the importance level is
\* medium and key_points equals the tags.
C28_FallbackTagsAreTheMatchingGroups ==
    FallbackCalled =>
        LET c == analyze_calls[1]
            tags == c.analysis.content_tags
            matching == GroupsMatching(c.article)
        IN /\ (tags = <<GenericTag>>) <=> (matching = {})
           /\ matching # {} =>
                 /\ Len(tags) = Cardinality(matching)
                 /\ \A p \in DOMAIN tags : \E g \in matching : tags[p] = GroupNames[g]
                 /\ \A p, q \in DOMAIN tags :
                       p < q => \E g, h \in matching :
                                   /\ g < h
                                   /\ tags[p] = GroupNames[g]
                                   /\ tags[q] = GroupNames[h]
           /\ c.analysis.importance_level = "medium"
           /\ c.analysis.key_points = tags

\* An article whose title and summary match four groups, the last one through
\* a keyword inside a longer word.
C28_Witness ==
    /\ FallbackCalled
    /\ analyze_calls[1].article = [title |-> <<"maintain", "climate">>,
                                   summary |-> <<"market", "policy">>]
    /\ analyze_calls[1].analysis.content_tags =
           <<"politics", "economy", "environment", "AI-related">>

\* An article without a summary that matches no group.
C28_WitnessGeneric ==
    /\ FallbackCalled
    /\ analyze_calls[1].article = [title |-> <<"chip">>]
    /\ analyze_calls[1].analysis.content_tags = <<GenericTag>>

----------------------------------------------------------------------------
ArticleOf(oid) == CHOOSE a \in Range(ai_articles) : a.oid = oid

\* C29 (checked under SpecWide): when no GEMINI_API_KEY is configured, every
\* call of analyze_with_gemini returns the fallback analysis of its article
\* without a request to the primary service or to the arXiv abstract page, and
\* abstract_cache stays as it was.
C29_NoKeyNoRequest ==
    ~gemini_api_key =>
        /\ abstract_calls = <<>>
        /\ abstract_cache = <<>>
        /\ \A i \in DOMAIN analyze_calls :
              /\ ~analyze_calls[i].requested
              /\ ~analyze_calls[i].raised
              /\ analyze_calls[i].analysis =
                     fallback_analysis(ArticleOf(analyze_calls[i].article))

\* Without a key, an arXiv paper and another article have been analyzed.
C29_Witness ==
    /\ ~gemini_api_key
    /\ \E i \in DOMAIN analyze_calls :
          IsArxivLink(ArticleOf(analyze_calls[i].article).link)
    /\ \E i \in DOMAIN analyze_calls :
          ~IsArxivLink(ArticleOf(analyze_calls[i].article).link)

----------------------------------------------------------------------------
\* fetch_rss_async was answered and went through the entries, and one attempt
\* of fetch_rss on the same response and the same pools goes through them too.
AsyncAnswered ==
    /\ Get(last_fetch, "kind", "none") = "fetch_rss_async"
    /\ last_fetch.status = "200"

SyncAttempt ==
    RssAttempt(last_fetch.source, last_fetch.type, baidu_configured,
               last_fetch.response, last_fetch.reply,
               last_fetch.before.all, last_fetch.before.ai, last_fetch.before.fact)

\* C30 (checked under SpecAsync): for the same feed response and the same
\* prior pools, fetch_rss_async accepts exactly the entries one successful
\* attempt of fetch_rss accepts, in the same order and with the same fields,
\* entries with an empty title or an empty link included.
C30_AsyncAcceptsWhatSyncAccepts ==
    (AsyncAnswered /\ ~SyncAttempt.raised) =>
        /\ all_articles = SyncAttempt.all
        /\ ai_articles = SyncAttempt.ai
        /\ fact_articles = SyncAttempt.fact
        /\ last_fetch.returned = SyncAttempt.added

\* On feeds whose in-window entries all have a title and a link the two agree.
C30_AgreeOnEntriesWithTitleAndLink ==
    (/\ AsyncAnswered
     /\ ~SyncAttempt.raised
     /\ \A i \in DOMAIN last_fetch.response :
           /\ Get(last_fetch.response[i], "title", <<>>) # <<>>
           /\ Get(last_fetch.response[i], "link", "") # "") =>
        /\ all_articles = SyncAttempt.all
        /\ ai_articles = SyncAttempt.ai
        /\ fact_articles = SyncAttempt.fact
        /\ last_fetch.returned = SyncAttempt.added

\* fetch_rss_async accepted an entry with an empty title into pools that an
\* earlier call had filled.
C30_AsyncAcceptedEmptyTitle ==
    /\ AsyncAnswered
    /\ last_fetch.before.all # <<>>
    /\ Len(all_articles) > Len(last_fetch.before.all)
    /\ all_articles[Len(all_articles)].title = <<>>

====
